---- MODULE Spec2Model ----
(***************************************************************************)
(* Hybrid speech-to-text capture of the chat composer                      *)
(* (components/multimodal-input.tsx) together with the Deepgram key        *)
(* endpoint (app/(chat)/api/key/route.ts) and the Whisper transcription    *)
(* endpoint (app/(chat)/api/whisper/route.ts).                             *)
(* The text block of the document editor (blocks/text/client.tsx) is       *)
(* modelled beside them; it shares no state with the capture.              *)
(*                                                                         *)
(* Every click on the microphone button that takes the START branch is a   *)
(* capture attempt; attempt i owns the objects its closure created:        *)
(* recognizer i on the Web Speech branch, WebSocket i, microphone stream i *)
(* and MediaRecorder i on the Deepgram branch.  The three React refs hold  *)
(* the number of the object they point to, 0 standing for null.            *)
(* Text is a sequence of one-character strings.                            *)
(***************************************************************************)
EXTENDS Integers, Sequences, FiniteSets, TLC

VARIABLES
    platform,           \* navigator / window as the page's scripts see them
    webSpeechSupported, \* const webSpeechSupported of the latest render
    isRecording,        \* useState(false)
    input,              \* composer text (prop input / setInput)
    recognitionRef,     \* useRef: recognizer number or 0
    mediaRecorderRef,   \* useRef: MediaRecorder number or 0
    deepgramSocketRef,  \* useRef: WebSocket number or 0
    recordStartRef,     \* useRef<number>(0)
    nStarts,            \* number of clicks that took the START branch
    recog,              \* SpeechRecognition objects, by attempt
    sock,               \* WebSocket objects, by attempt
    mic,                \* getUserMedia promise / MediaStream, by attempt
    rec,                \* MediaRecorder objects, by attempt
    toasts,             \* toast.error calls, counted by message
    uncaught,           \* exceptions thrown out of an event callback
    nMsgs,              \* socket messages delivered so far
    nMalformed,         \* of these, the ones the handler cannot normalise
    nResults,           \* recognizer result events delivered so far
    lastPartial,        \* transcript of the latest well-formed socket message
    now,                \* Date.now()
    issuedKeys,         \* keys created by the key endpoint
    keyResponse,        \* latest response of the key endpoint
    transcriptionText,  \* what Whisper returned to the latest POST
    whisperResponse,    \* latest response of the transcription endpoint
    chunks,             \* dataavailable events of each MediaRecorder, in order
    frames,             \* dgSocket.send calls on each WebSocket, in order
    flush,              \* recorders whose stop() has its last chunk pending
    supportedTypes,     \* the types MediaRecorder.isTypeSupported accepts
    recMime,            \* options.mimeType of each MediaRecorder
    tempFiles,          \* the files in tempDir
    nWrites,            \* temporary files written so far (one uuid each)
    metadata,           \* the text block's metadata (NoMetadata until set)
    block,              \* the text block's draft: content, status, isVisible
    initialized,        \* where the text block's initialize is
    savedContent,       \* contents handed to the block's onSaveContent prop
    nParts              \* stream parts the text block received

vars == <<platform, webSpeechSupported, isRecording, input, recognitionRef,
          mediaRecorderRef, deepgramSocketRef, recordStartRef, nStarts,
          recog, sock, mic, rec, toasts, uncaught, nMsgs, nMalformed,
          nResults, lastPartial, now, issuedKeys, keyResponse,
          transcriptionText, whisperResponse, chunks, frames, flush,
          supportedTypes, recMime, tempFiles, nWrites, metadata, block,
          initialized, savedContent, nParts>>

sessionVars == <<isRecording, input, recognitionRef, mediaRecorderRef,
                 deepgramSocketRef, recordStartRef, nStarts, recog, sock,
                 mic, rec, toasts, uncaught, nMsgs, nMalformed, nResults,
                 lastPartial, now>>

keyVars == <<issuedKeys, keyResponse>>

whisperVars == <<transcriptionText, whisperResponse, tempFiles, nWrites>>

\* the state of the server's endpoints, which no callback of the component
\* touches
serverVars == <<keyVars, whisperVars>>

\* the audio that went from the recorders to the sockets
audioVars == <<chunks, frames, flush>>

\* the container the recorders were created with
mediaVars == <<supportedTypes, recMime>>

\* the text block of the document editor
textVars == <<metadata, block, initialized, savedContent, nParts>>

----------------------------------------------------------------------------
(* Bounds *)

MaxStarts  == 2   \* start clicks
MaxMsgs    == 2   \* inbound socket messages
MaxResults == 1   \* recognizer result events
MaxTicks   == 1   \* clock advances
MaxKeys    == 5   \* keys the endpoint issues
MaxUaLen   == 2   \* tokens in a user-agent string
MaxTextLen == 6   \* characters of a transcription Whisper returns
MaxChunks  == 2   \* dataavailable events
MaxWrites  == 3   \* temporary files the transcription endpoint writes
MaxParts   == 2   \* stream parts the text block receives
MaxSaves   == 1   \* manual saves of the text block
MaxDeltaLen == 2  \* characters of a text delta or of a saved content

Ids == 1..MaxStarts

----------------------------------------------------------------------------
(* Program constants *)

MIN_RECORD_DURATION_MS == 800
\* a credential: its text and, for a key the endpoint created, its serial
DG_KEY == [text |-> "YOUR_DEEPGRAM_API_KEY", serial |-> 0]
KEY_TTL_SECONDS == 20
MIN_AUDIO_FILE_SIZE == 1000
MIN_TRANSCRIPT_LENGTH == 5

TickMs == MIN_RECORD_DURATION_MS
Epoch  == 2 * MIN_RECORD_DURATION_MS

MsgSpeechError == "Speech recognition error"
MsgNoSpeech    == "No meaningful speech detected."
MsgDeepgram    == "Deepgram error"
MsgTooShort    == "Recording too short; no audio detected."
MsgCannot      == "Cannot access microphone or speech API!"

ToastMessages ==
    {MsgSpeechError, MsgNoSpeech, MsgDeepgram, MsgTooShort, MsgCannot}

----------------------------------------------------------------------------
(* Text *)

IsSpace(c) == c = " "

RECURSIVE TrimStart(_)
TrimStart(s) ==
    IF s = <<>> THEN <<>>
    ELSE IF IsSpace(Head(s)) THEN TrimStart(Tail(s)) ELSE s

RECURSIVE TrimEnd(_)
TrimEnd(s) ==
    IF s = <<>> THEN <<>>
    ELSE IF IsSpace(s[Len(s)]) THEN TrimEnd(SubSeq(s, 1, Len(s) - 1)) ELSE s

\* String.prototype.trim
Trim(s) == TrimEnd(TrimStart(s))

RECURSIVE Concat(_)
Concat(ss) == IF ss = <<>> THEN <<>> ELSE Head(ss) \o Concat(Tail(ss))

\* s.replace(/\s+/, ' '): the pattern has no g flag, so the first run of
\* whitespace, if there is one, is replaced by one space and the rest of the
\* string is kept as it is
RECURSIVE ReplaceFirstRun(_)
ReplaceFirstRun(s) ==
    IF s = <<>> THEN <<>>
    ELSE IF IsSpace(Head(s)) THEN <<" ">> \o TrimStart(s)
    ELSE <<Head(s)>> \o ReplaceFirstRun(Tail(s))

\* const cleaned = transcriptionText.trim().replace(/\s+/, ' ')
cleaned(t) == ReplaceFirstRun(Trim(t))

Chars == {"a", " "}

Texts == UNION {[1..n -> Chars] : n \in 0..MaxTextLen}

----------------------------------------------------------------------------
(* Capability probe *)

UaTokens == {"Mozilla", "Macintosh", "iPhone", "IPAD", "ipod"}

\* the i flag of the regular expression: letters compare by their lower case
LowerCase(t) ==
    CASE t = "Mozilla"   -> "mozilla"
      [] t = "Macintosh" -> "macintosh"
      [] t = "iPhone"    -> "iphone"
      [] t = "IPAD"      -> "ipad"
      [] t = "ipod"      -> "ipod"

UserAgents == UNION {[1..n -> UaTokens] : n \in 0..MaxUaLen}

\* /iPhone|iPad|iPod/i.test(ua)
MatchesIosRegex(ua) ==
    \E k \in 1..Len(ua) :
        LowerCase(ua[k]) \in {LowerCase("iPhone"), "ipad", "ipod"}

isIos(p) ==
    IF ~p.navigator THEN FALSE ELSE MatchesIosRegex(p.userAgent)

\* a probe that trusts the constructors and forgets the iOS override
canUseWebSpeech_TrustsConstructor(p) ==
    p.window /\ (p.SpeechRecognition \/ p.webkitSpeechRecognition)

canUseWebSpeech(p) ==
    IF isIos(p) THEN FALSE
    ELSE IF ~p.window THEN FALSE
    ELSE p.SpeechRecognition \/ p.webkitSpeechRecognition

\* Every platform the module can be evaluated on: on the server there is no
\* window (and so no recognition constructor); without navigator there is no
\* user agent.
Platforms ==
    {p \in [navigator : BOOLEAN, userAgent : UserAgents, window : BOOLEAN,
            SpeechRecognition : BOOLEAN, webkitSpeechRecognition : BOOLEAN] :
        /\ ~p.navigator => p.userAgent = <<>>
        /\ ~p.window => ~p.SpeechRecognition /\ ~p.webkitSpeechRecognition}

\* The platforms a click handler can run on (a browser: window and navigator
\* exist).
ClientPlatforms ==
    {p \in Platforms :
        /\ p.navigator /\ p.window
        /\ ~p.SpeechRecognition
        /\ \/ p.userAgent = <<"Mozilla">>
           \/ p.userAgent = <<"Mozilla", "iPhone">>
              /\ p.webkitSpeechRecognition}

----------------------------------------------------------------------------
(* Recorder container *)

WebmOpus == "audio/webm; codecs=opus"
Mp4Opus  == "audio/mp4; codecs=opus"
OggOpus  == "audio/ogg; codecs=opus"

\* the types a platform may report as supported
MimeTypes == {WebmOpus, Mp4Opus, OggOpus, "audio/webm", "audio/wav"}

RECURSIVE FirstSupported(_, _)
FirstSupported(list, supported) ==
    IF list = <<>> THEN "undefined"
    ELSE IF Head(list) \in supported THEN Head(list)
    ELSE FirstSupported(Tail(list), supported)

\* a preference list with ogg before mp4
pickMimeType_OggBeforeMp4(supported) ==
    FirstSupported(<<WebmOpus, OggOpus, Mp4Opus>>, supported)

pickMimeType(supported) ==
    FirstSupported(<<WebmOpus, Mp4Opus, OggOpus>>, supported)

----------------------------------------------------------------------------
(* Objects *)

NoRecognizer == [state |-> "none", finalTranscript |-> <<>>]

NoSocket ==
    [state |-> "none", handlers |-> FALSE, token |-> DG_KEY]

\* e.results of a recognizer result event: the transcripts of its results
ResultLists ==
    { << <<"a">> >>, << <<"a">>, <<" ", "b">> >>, << <<" ">> >>,
      << <<"a", " ">> >> }

Transcripts == { <<>>, <<"a">>, <<"b">> }

\* msg.data of a socket message event.  parses: JSON.parse succeeds;
\* channel: "absent" (no channel member), "noAlternatives" (channel without
\* alternatives), "emptyAlternatives" (alternatives is []), "alternatives"
\* (transcript in channel.alternatives[0]), "flat" (no channel member; the
\* transcript and the final flag are members of the message itself).
Messages ==
    [parses : {FALSE}, channel : {"absent"}, transcript : {<<>>},
     is_final : {FALSE}]
    \cup [parses : {TRUE}, channel : {"absent", "noAlternatives",
                                      "emptyAlternatives"},
          transcript : {<<>>}, is_final : {FALSE}]
    \cup [parses : {TRUE}, channel : {"alternatives", "flat"},
          transcript : Transcripts, is_final : BOOLEAN]

\* the message is a transcript message of one of the envelope shapes
CarriesTranscript(m) == m.parses /\ m.channel \in {"alternatives", "flat"}

Malformed(m) == ~m.parses \/ m.channel \in {"absent", "noAlternatives"}

Toast(msg) == [toasts EXCEPT ![msg] = @ + 1]

\* The component renders again whenever its state or its input prop changed;
\* each render evaluates canUseWebSpeech() anew.
Rerender ==
    webSpeechSupported' =
        IF isRecording' # isRecording \/ input' # input
        THEN canUseWebSpeech(platform)
        ELSE webSpeechSupported

\* the text block's characters, as code points: a Latin letter, an Arabic
\* letter, and the first code point after the Arabic block
BlockChars == {97, 1575, 1792}

BlockTexts == UNION {[1..n -> BlockChars] : n \in 0..MaxDeltaLen}

\* /[\u0600-\u06FF]/.test(text)
isLikelyArabic(text) ==
    \E k \in 1..Len(text) : text[k] >= 1536 /\ text[k] <= 1791

Suggestions == {"s1"}

\* what getSuggestions resolves to, after `?? []`
FetchedSuggestions == {<<>>, <<"s1">>}

\* the metadata nobody has set yet
NoMetadata ==
    [defined |-> FALSE, suggestions |-> <<>>, language |-> "undefined"]

\* prevMetadata || { suggestions: [], language: 'en' }
safeMetadata(prev) ==
    IF prev.defined
    THEN prev
    ELSE [defined |-> TRUE, suggestions |-> <<>>, language |-> "en"]

\* draftBlock.content.length > 400 && draftBlock.content.length < 450
VisibleFrom == 400
VisibleUpTo == 450

----------------------------------------------------------------------------
(* Initial state: the component is mounted in a browser, nothing captured *)

InitSession ==
    /\ isRecording = FALSE
    /\ input = <<>>
    /\ recognitionRef = 0
    /\ mediaRecorderRef = 0
    /\ deepgramSocketRef = 0
    /\ recordStartRef = 0
    /\ nStarts = 0
    /\ recog = [i \in Ids |-> NoRecognizer]
    /\ sock = [i \in Ids |-> NoSocket]
    /\ mic = [i \in Ids |-> "none"]
    /\ rec = [i \in Ids |-> "none"]
    /\ toasts = [m \in ToastMessages |-> 0]
    /\ uncaught = 0
    /\ nMsgs = 0
    /\ nMalformed = 0
    /\ nResults = 0
    /\ lastPartial = <<>>
    /\ now = Epoch
    /\ chunks = [i \in Ids |-> <<>>]
    /\ frames = [i \in Ids |-> <<>>]
    /\ flush = {}
    /\ recMime = [i \in Ids |-> "none"]

InitKey ==
    /\ issuedKeys = {}
    /\ keyResponse = [status |-> 0, key |-> [text |-> "", serial |-> 0],
                      error |-> "none"]

InitWhisper ==
    /\ transcriptionText = <<>>
    /\ whisperResponse =
           [status |-> 0, hasText |-> FALSE, text |-> <<>>, error |-> "none"]
    /\ tempFiles = {}
    /\ nWrites = 0

\* the text block before initialize ran and before any stream part
InitText ==
    /\ metadata = NoMetadata
    /\ block = [content |-> <<>>, status |-> "idle", isVisible |-> FALSE]
    /\ initialized = "no"
    /\ savedContent = <<>>
    /\ nParts = 0

\* a browser whose MediaRecorder writes webm
InitMedia == supportedTypes = {WebmOpus, "audio/webm"}

Init ==
    /\ platform \in ClientPlatforms
    /\ webSpeechSupported = canUseWebSpeech(platform)
    /\ InitSession
    /\ InitKey
    /\ InitWhisper
    /\ InitText
    /\ InitMedia

----------------------------------------------------------------------------
(* handleRecordClick, START branch *)

\* The platform lets one recognition session run per page: start() of a new
\* recognizer aborts the one still starting or running, which then reports
\* an error event and its end event.
AbortOthers(i) ==
    [j \in Ids |->
        IF j # i /\ recog[j].state \in {"starting", "running"}
        THEN [recog[j] EXCEPT !.state = "aborting"]
        ELSE recog[j]]

\* lines 260-299: what the Web Speech branch does to the recognizers
StartRecognizer(i) ==
    /\ ~isRecording
    /\ webSpeechSupported
    /\ nStarts < MaxStarts
    /\ i = nStarts + 1
    /\ nStarts' = i
    /\ IF platform.SpeechRecognition \/ platform.webkitSpeechRecognition
       THEN /\ recog' = [AbortOthers(i) EXCEPT
                            ![i] = [state |-> "starting",
                                    finalTranscript |-> <<>>]]
            /\ recognitionRef' = i
            /\ toasts' = toasts
       ELSE \* new undefined() throws; the catch block reports it
            /\ toasts' = Toast(MsgCannot)
            /\ UNCHANGED <<recog, recognitionRef>>
    /\ UNCHANGED <<platform, webSpeechSupported, isRecording, input,
                   mediaRecorderRef, recordStartRef, mic, rec, uncaught,
                   nMsgs, nMalformed, nResults, lastPartial, now, serverVars, audioVars, mediaVars,
                   textVars>>

\* a START branch that creates the socket before it looks at the strategy
ClickStartWebSpeech_SocketFirst(i) ==
    /\ StartRecognizer(i)
    /\ sock' = [sock EXCEPT ![i] = [NoSocket EXCEPT !.state = "CONNECTING"]]
    /\ deepgramSocketRef' = i

ClickStartWebSpeech(i) ==
    /\ StartRecognizer(i)
    /\ UNCHANGED <<sock, deepgramSocketRef>>

\* up to the await of getUserMedia
ClickStartDeepgram(i) ==
    /\ ~isRecording
    /\ ~webSpeechSupported
    /\ nStarts < MaxStarts
    /\ i = nStarts + 1
    /\ nStarts' = i
    /\ sock' = [sock EXCEPT ![i] = [NoSocket EXCEPT !.state = "CONNECTING",
                                                    !.token = DG_KEY]]
    /\ deepgramSocketRef' = i
    /\ mic' = [mic EXCEPT ![i] = "pending"]
    /\ UNCHANGED <<platform, webSpeechSupported, isRecording, input,
                   recognitionRef, mediaRecorderRef, recordStartRef, recog,
                   rec, toasts, uncaught, nMsgs, nMalformed, nResults,
                   lastPartial, now, serverVars, audioVars, mediaVars,
                   textVars>>

\* getUserMedia resolves: the rest of the START branch runs
MicGranted(i) ==
    /\ mic[i] = "pending"
    /\ mic' = [mic EXCEPT ![i] = "live"]
    /\ sock' = [sock EXCEPT ![i].handlers = TRUE]
    /\ rec' = [rec EXCEPT ![i] = "recording"]
    /\ recMime' = [recMime EXCEPT ![i] = pickMimeType(supportedTypes)]
    /\ mediaRecorderRef' = i
    /\ UNCHANGED <<platform, webSpeechSupported, isRecording, input,
                   recognitionRef, deepgramSocketRef, recordStartRef,
                   nStarts, recog, toasts, uncaught, nMsgs, nMalformed,
                   nResults, lastPartial, now, serverVars, audioVars,
                   supportedTypes, textVars>>

\* getUserMedia rejects: the catch block of handleRecordClick
MicDenied(i) ==
    /\ mic[i] = "pending"
    /\ mic' = [mic EXCEPT ![i] = "denied"]
    /\ toasts' = Toast(MsgCannot)
    /\ UNCHANGED <<platform, webSpeechSupported, isRecording, input,
                   recognitionRef, mediaRecorderRef, deepgramSocketRef,
                   recordStartRef, nStarts, recog, sock, rec, uncaught,
                   nMsgs, nMalformed, nResults, lastPartial, now, serverVars, audioVars, mediaVars,
                   textVars>>

----------------------------------------------------------------------------
(* handleRecordClick, STOP branch *)

ClickStopWebSpeech ==
    /\ isRecording
    /\ webSpeechSupported
    /\ recog' = IF recognitionRef # 0
                   /\ recog[recognitionRef].state \in {"starting", "running"}
                THEN [recog EXCEPT ![recognitionRef].state = "stopping"]
                ELSE recog
    /\ UNCHANGED <<platform, webSpeechSupported, isRecording, input,
                   recognitionRef, mediaRecorderRef, deepgramSocketRef,
                   recordStartRef, nStarts, sock, mic, rec, toasts,
                   uncaught, nMsgs, nMalformed, nResults, lastPartial, now,
                   serverVars, audioVars, mediaVars, textVars>>

\* a stop branch without the recorder's state test: stop() on an inactive
\* MediaRecorder throws InvalidStateError, the catch block reports it and
\* the rest of the branch is skipped
ClickStopDeepgram_Unguarded ==
    /\ isRecording
    /\ ~webSpeechSupported
    /\ LET mr == mediaRecorderRef
           s == deepgramSocketRef
       IN  IF mr # 0 /\ rec[mr] = "inactive"
           THEN /\ toasts' = Toast(MsgCannot)
                /\ UNCHANGED <<rec, mic, sock, isRecording, input,
                               webSpeechSupported, flush>>
           ELSE /\ rec' = IF mr # 0 THEN [rec EXCEPT ![mr] = "inactive"]
                          ELSE rec
                /\ flush' = IF mr # 0 THEN flush \cup {mr} ELSE flush
                /\ mic' = IF mr # 0 THEN [mic EXCEPT ![mr] = "stopped"]
                          ELSE mic
                /\ sock' = IF s # 0 /\ sock[s].state = "OPEN"
                           THEN [sock EXCEPT ![s].state = "CLOSING"]
                           ELSE sock
                /\ isRecording' = FALSE
                /\ toasts' = IF now - recordStartRef < MIN_RECORD_DURATION_MS
                             THEN Toast(MsgTooShort)
                             ELSE toasts
                /\ input' = input
                /\ Rerender
    /\ UNCHANGED <<platform, recognitionRef, mediaRecorderRef,
                   deepgramSocketRef, recordStartRef, nStarts, recog,
                   uncaught, nMsgs, nMalformed, nResults, lastPartial, now,
                   serverVars, chunks, frames, mediaVars, textVars>>

ClickStopDeepgram ==
    /\ isRecording
    /\ ~webSpeechSupported
    /\ LET mr == mediaRecorderRef
           stopIt == mr # 0 /\ rec[mr] # "inactive"
       IN  /\ rec' = IF stopIt THEN [rec EXCEPT ![mr] = "inactive"] ELSE rec
           /\ mic' = IF stopIt THEN [mic EXCEPT ![mr] = "stopped"] ELSE mic
           \* stop() queues a last dataavailable event
           /\ flush' = IF stopIt THEN flush \cup {mr} ELSE flush
    /\ LET s == deepgramSocketRef
       IN  sock' = IF s # 0 /\ sock[s].state = "OPEN"
                   THEN [sock EXCEPT ![s].state = "CLOSING"]
                   ELSE sock
    /\ isRecording' = FALSE
    /\ toasts' = IF now - recordStartRef < MIN_RECORD_DURATION_MS
                 THEN Toast(MsgTooShort)
                 ELSE toasts
    /\ input' = input
    /\ Rerender
    /\ UNCHANGED <<platform, recognitionRef, mediaRecorderRef,
                   deepgramSocketRef, recordStartRef, nStarts, recog,
                   uncaught, nMsgs, nMalformed, nResults, lastPartial, now,
                   serverVars, chunks, frames, mediaVars, textVars>>

----------------------------------------------------------------------------
(* MediaRecorder events *)

\* evt.data.size of a dataavailable event
ChunkSizes == {0, 1}

RECURSIVE TotalLen(_, _)
TotalLen(f, ids) ==
    IF ids = {} THEN 0
    ELSE LET i == CHOOSE x \in ids : TRUE
         IN  Len(f[i]) + TotalLen(f, ids \ {i})

\* an ondataavailable that sends whatever the socket's readyState is
DataAvailable_NoReadyStateTest(i, size) ==
    /\ rec[i] = "recording" \/ i \in flush
    /\ TotalLen(chunks, Ids) < MaxChunks
    /\ LET chunk == [serial |-> Len(chunks[i]) + 1, size |-> size]
       IN  /\ chunks' = [chunks EXCEPT ![i] = Append(@, chunk)]
           /\ frames' = IF size > 0
                         THEN [frames EXCEPT ![i] = Append(@, chunk)]
                         ELSE frames
    /\ flush' = IF rec[i] = "recording" THEN flush ELSE flush \ {i}
    /\ UNCHANGED <<platform, webSpeechSupported, sessionVars, serverVars,
                   mediaVars, textVars>>

\* mediaRecorder.ondataavailable of attempt i: every 300 ms while the
\* recorder records, and once more after stop(); dgSocket is the socket the
\* same attempt created
DataAvailable(i, size) ==
    /\ rec[i] = "recording" \/ i \in flush
    /\ TotalLen(chunks, Ids) < MaxChunks
    /\ LET chunk == [serial |-> Len(chunks[i]) + 1, size |-> size]
       IN  /\ chunks' = [chunks EXCEPT ![i] = Append(@, chunk)]
           /\ frames' = IF size > 0 /\ sock[i].state = "OPEN"
                         THEN [frames EXCEPT ![i] = Append(@, chunk)]
                         ELSE frames
    /\ flush' = IF rec[i] = "recording" THEN flush ELSE flush \ {i}
    /\ UNCHANGED <<platform, webSpeechSupported, sessionVars, serverVars,
                   mediaVars, textVars>>

----------------------------------------------------------------------------
(* WebSocket events.  The handlers exist only once the START branch has    *)
(* passed the await of getUserMedia; an event dispatched earlier finds no  *)
(* handler.                                                                *)

SocketOpen(i) ==
    /\ sock[i].state = "CONNECTING"
    /\ IF sock[i].handlers
       THEN \* dgSocket.onopen
            /\ sock' = [sock EXCEPT ![i].state = "OPEN"]
            /\ isRecording' = TRUE
            /\ input' = <<>>
            /\ recordStartRef' = now
       ELSE /\ sock' = [sock EXCEPT ![i].state = "OPEN"]
            /\ UNCHANGED <<isRecording, input, recordStartRef>>
    /\ Rerender
    /\ UNCHANGED <<platform, recognitionRef, mediaRecorderRef,
                   deepgramSocketRef, nStarts, recog, mic, rec, toasts,
                   uncaught, nMsgs, nMalformed, nResults, lastPartial, now,
                   serverVars, audioVars, mediaVars, textVars>>

\* The connection is closed; when it failed the error event is dispatched
\* first and the close event right after it, in the same task.
SocketClose(i, failed) ==
    /\ sock[i].state \in {"CONNECTING", "OPEN", "CLOSING"}
    /\ sock[i].state = "CONNECTING" => failed
    /\ sock' = [sock EXCEPT ![i].state = "CLOSED"]
    /\ IF sock[i].handlers
       THEN /\ toasts' = IF failed THEN Toast(MsgDeepgram) ELSE toasts
            /\ isRecording' = FALSE
       ELSE UNCHANGED <<toasts, isRecording>>
    /\ input' = input
    /\ Rerender
    /\ UNCHANGED <<platform, recognitionRef, mediaRecorderRef,
                   deepgramSocketRef, recordStartRef, nStarts, recog, mic,
                   rec, uncaught, nMsgs, nMalformed, nResults, lastPartial,
                   now, serverVars, audioVars, mediaVars, textVars>>

\* dgSocket.onmessage: what the handler does with msg.data
OnMessageThrows(m) == ~m.parses \/ m.channel = "noAlternatives"

OnMessageSetsInput(m) ==
    /\ m.parses
    /\ m.channel = "alternatives"
    /\ m.transcript # <<>>

SocketMessage(i, m) ==
    /\ sock[i].state \in {"OPEN", "CLOSING"}
    /\ nMsgs < MaxMsgs
    /\ nMsgs' = nMsgs + 1
    /\ IF sock[i].handlers
       THEN /\ uncaught' = IF OnMessageThrows(m) THEN uncaught + 1
                           ELSE uncaught
            /\ input' = IF OnMessageSetsInput(m) THEN m.transcript ELSE input
            /\ nMalformed' = IF Malformed(m) THEN nMalformed + 1
                             ELSE nMalformed
            /\ lastPartial' = IF CarriesTranscript(m)
                              THEN m.transcript ELSE lastPartial
       ELSE UNCHANGED <<uncaught, input, nMalformed, lastPartial>>
    /\ isRecording' = isRecording
    /\ Rerender
    /\ UNCHANGED <<platform, recognitionRef, mediaRecorderRef,
                   deepgramSocketRef, recordStartRef, nStarts, recog, sock,
                   mic, rec, toasts, nResults, now, serverVars, audioVars, mediaVars,
                   textVars>>

----------------------------------------------------------------------------
(* SpeechRecognition events *)

\* recognition.onstart
RecogStart(i) ==
    /\ recog[i].state = "starting"
    /\ recog' = [recog EXCEPT ![i].state = "running"]
    /\ isRecording' = TRUE
    /\ input' = input
    /\ Rerender
    /\ UNCHANGED <<platform, recognitionRef, mediaRecorderRef,
                   deepgramSocketRef, recordStartRef, nStarts, sock, mic,
                   rec, toasts, uncaught, nMsgs, nMalformed, nResults,
                   lastPartial, now, serverVars, audioVars, mediaVars,
                   textVars>>

\* recognition.onresult
RecogResult(i, results) ==
    /\ recog[i].state \in {"running", "stopping"}
    /\ nResults < MaxResults
    /\ nResults' = nResults + 1
    /\ LET partial == Concat(results)
       IN  /\ recog' = [recog EXCEPT ![i].finalTranscript = partial]
           /\ input' = partial
    /\ isRecording' = isRecording
    /\ Rerender
    /\ UNCHANGED <<platform, recognitionRef, mediaRecorderRef,
                   deepgramSocketRef, recordStartRef, nStarts, sock, mic,
                   rec, toasts, uncaught, nMsgs, nMalformed, lastPartial,
                   now, serverVars, audioVars, mediaVars, textVars>>

\* recognition.onerror; the recognizer's end event follows
RecogError(i) ==
    /\ recog[i].state \in {"starting", "running", "aborting"}
    /\ recog' = [recog EXCEPT ![i].state = "errored"]
    /\ toasts' = Toast(MsgSpeechError)
    /\ UNCHANGED <<platform, webSpeechSupported, isRecording, input,
                   recognitionRef, mediaRecorderRef, deepgramSocketRef,
                   recordStartRef, nStarts, sock, mic, rec, uncaught, nMsgs,
                   nMalformed, nResults, lastPartial, now, serverVars, audioVars, mediaVars,
                   textVars>>

\* an onend that starts the recognizer again (continuous dictation)
RecogEnd_Restarts(i) ==
    /\ recog[i].state \in {"running", "stopping", "errored"}
    /\ recog' = [recog EXCEPT ![i].state = "starting"]
    /\ isRecording' = FALSE
    /\ input' = input
    /\ Rerender
    /\ UNCHANGED <<platform, recognitionRef, mediaRecorderRef,
                   deepgramSocketRef, recordStartRef, nStarts, sock, mic,
                   rec, toasts, uncaught, nMsgs, nMalformed, nResults,
                   lastPartial, now, serverVars, audioVars, mediaVars,
                   textVars>>

\* recognition.onend
RecogEnd(i) ==
    /\ recog[i].state \in {"running", "stopping", "errored"}
    /\ recog' = [recog EXCEPT ![i].state = "ended"]
    /\ isRecording' = FALSE
    /\ IF Trim(recog[i].finalTranscript) = <<>>
       THEN /\ toasts' = Toast(MsgNoSpeech)
            /\ input' = input
       ELSE /\ input' = Trim(recog[i].finalTranscript)
            /\ toasts' = toasts
    /\ Rerender
    /\ UNCHANGED <<platform, recognitionRef, mediaRecorderRef,
                   deepgramSocketRef, recordStartRef, nStarts, sock, mic,
                   rec, uncaught, nMsgs, nMalformed, nResults, lastPartial,
                   now, serverVars, audioVars, mediaVars, textVars>>

----------------------------------------------------------------------------
(* Environment *)

Tick ==
    /\ now < Epoch + MaxTicks * TickMs
    /\ now' = now + TickMs
    /\ UNCHANGED <<platform, webSpeechSupported, isRecording, input,
                   recognitionRef, mediaRecorderRef, deepgramSocketRef,
                   recordStartRef, nStarts, recog, sock, mic, rec, toasts,
                   uncaught, nMsgs, nMalformed, nResults, lastPartial,
                   serverVars, audioVars, mediaVars, textVars>>

\* what navigator and window report changes (a script defines or removes
\* the recognition constructor, the user-agent override is switched)
EnvChange(p) ==
    /\ p # platform
    /\ platform' = p
    /\ UNCHANGED <<webSpeechSupported, sessionVars, serverVars, audioVars, mediaVars,
                   textVars>>

\* a probe that keeps state between calls (a shared regular expression with
\* the g or y flag remembers lastIndex): its answer on an iOS user agent
\* alternates
Render_StatefulProbe ==
    /\ webSpeechSupported' =
           IF isIos(platform) THEN ~webSpeechSupported
           ELSE canUseWebSpeech(platform)
    /\ UNCHANGED <<platform, sessionVars, serverVars, audioVars, mediaVars,
                   textVars>>

\* the component renders for a reason of its parent's
Render ==
    /\ webSpeechSupported' = canUseWebSpeech(platform)
    /\ UNCHANGED <<platform, sessionVars, serverVars, audioVars, mediaVars,
                   textVars>>

----------------------------------------------------------------------------
(* GET /api/key *)

ProjectIds == {"p1", "p2"}

\* what client.manage.getProjects() resolves to: an error, a result without
\* a projects member, or a result with a list of projects (their ids)
ProjectsOutcomes ==
    [outcome : {"error", "missing"}, projects : {<<>>}]
    \cup [outcome : {"listed"},
          projects : {<<>>} \cup {<<a>> : a \in ProjectIds}
                     \cup {<<a, b>> : a \in ProjectIds, b \in ProjectIds}]

CreateKeyOutcomes == {"error", "created", "createdWithoutKey"}

\* the key member of a response body that has none
NoKey == [text |-> "", serial |-> 0]

NewKey == [text |-> "temporary", serial |-> Cardinality(issuedKeys) + 1]

KeyError(message) == [status |-> 500, key |-> NoKey, error |-> message]

KeyGET(projects, created) ==
    /\ Cardinality(issuedKeys) < MaxKeys
    /\ IF projects.outcome = "error"
       THEN /\ keyResponse' = KeyError("getProjects")
            /\ issuedKeys' = issuedKeys
       ELSE IF projects.outcome = "missing" \/ Len(projects.projects) = 0
       THEN /\ keyResponse' = KeyError("No projects found")
            /\ issuedKeys' = issuedKeys
       ELSE IF created = "error"
       THEN /\ keyResponse' = KeyError("createProjectKey")
            /\ issuedKeys' = issuedKeys
       ELSE IF created = "createdWithoutKey"
       THEN \* keyResponse.result.key is undefined
            /\ keyResponse' = [status |-> 200, key |-> NoKey,
                               error |-> "none"]
            /\ issuedKeys' = issuedKeys
       ELSE LET projectId == projects.projects[1]
            IN  /\ keyResponse' = [status |-> 200, key |-> NewKey,
                                   error |-> "none"]
                /\ issuedKeys' = issuedKeys \cup
                       {[key |-> NewKey, ttl |-> KEY_TTL_SECONDS,
                         project |-> projectId]}
    /\ UNCHANGED <<platform, webSpeechSupported, sessionVars, whisperVars,
                   audioVars, mediaVars, textVars>>

----------------------------------------------------------------------------
(* POST /api/whisper *)

\* the audio member of the form data: present or not, and file.size
Uploads ==
    {[present |-> FALSE, size |-> 0]}
    \cup [present : {TRUE},
          size : {0, MIN_AUDIO_FILE_SIZE - 1, MIN_AUDIO_FILE_SIZE}]

\* what openai.audio.transcriptions.create does: it throws, or returns text
Transcriptions == [ok : BOOLEAN, text : Texts]

WhisperError(status, message) ==
    [status |-> status, hasText |-> FALSE, text |-> <<>>, error |-> message]

POST(upload, transcription) ==
    /\ IF ~upload.present
       THEN /\ whisperResponse' = WhisperError(400, "No audio file provided")
            /\ transcriptionText' = <<>>
       ELSE IF upload.size < MIN_AUDIO_FILE_SIZE
       THEN /\ whisperResponse' =
                   WhisperError(200, "No meaningful audio recorded.")
            /\ transcriptionText' = <<>>
       ELSE IF ~transcription.ok
       THEN /\ whisperResponse' =
                   WhisperError(500, "Failed to transcribe audio")
            /\ transcriptionText' = <<>>
       ELSE /\ transcriptionText' = transcription.text
            /\ whisperResponse' =
                   IF Len(cleaned(transcription.text)) < MIN_TRANSCRIPT_LENGTH
                   THEN WhisperError(200, MsgNoSpeech)
                   ELSE [status |-> 200, hasText |-> TRUE,
                         text |-> cleaned(transcription.text),
                         error |-> "none"]
    /\ UNCHANGED <<platform, webSpeechSupported, sessionVars, keyVars,
                   audioVars, mediaVars, tempFiles, nWrites, textVars>>

\* the revisions of the endpoint that hand Whisper a file of tempDir

\* file.type of the upload, as far as the extension depends on it
UploadTypes == {"audio/webm", "audio/ogg", "audio/mp4"}

TempUploads ==
    {[present |-> FALSE, size |-> 0, type |-> "audio/webm"]}
    \cup [present : {TRUE},
          size : {MIN_AUDIO_FILE_SIZE - 1, MIN_AUDIO_FILE_SIZE},
          type : UploadTypes]

extension(type) ==
    IF type = "audio/ogg" THEN "ogg"
    ELSE IF type = "audio/mp4" THEN "mp4"
    ELSE "webm"

\* `temp-${uuid()}.${extension}`: a name no earlier file has
tempFilename(type) == [uuid |-> nWrites + 1, extension |-> extension(type)]

\* writeFile, the Whisper call, and unlink when the call returned; a call
\* that throws goes to the catch, which leaves the file where it is
WriteTranscribeUnlink(upload, transcription) ==
    /\ nWrites < MaxWrites
    /\ nWrites' = nWrites + 1
    /\ tempFiles' = IF transcription.ok
                    THEN (tempFiles \cup {tempFilename(upload.type)})
                             \ {tempFilename(upload.type)}
                    ELSE tempFiles \cup {tempFilename(upload.type)}

\* the first revision: no size test, and the text goes out as Whisper gave it
POST_TempFile(upload, transcription) ==
    /\ IF ~upload.present
       THEN /\ whisperResponse' = WhisperError(400, "No audio file provided")
            /\ transcriptionText' = <<>>
            /\ UNCHANGED <<tempFiles, nWrites>>
       ELSE /\ WriteTranscribeUnlink(upload, transcription)
            /\ IF ~transcription.ok
               THEN /\ whisperResponse' =
                           WhisperError(500, "Failed to transcribe audio")
                    /\ transcriptionText' = <<>>
               ELSE /\ transcriptionText' = transcription.text
                    /\ whisperResponse' =
                           [status |-> 200, hasText |-> TRUE,
                            text |-> transcription.text, error |-> "none"]
    /\ UNCHANGED <<platform, webSpeechSupported, sessionVars, keyVars,
                   audioVars, mediaVars, textVars>>

\* the later revisions: the size test comes before the write, the text is
\* cleaned after the unlink
POST_TempFileChecked(upload, transcription) ==
    /\ IF ~upload.present
       THEN /\ whisperResponse' = WhisperError(400, "No audio file provided")
            /\ transcriptionText' = <<>>
            /\ UNCHANGED <<tempFiles, nWrites>>
       ELSE IF upload.size < MIN_AUDIO_FILE_SIZE
       THEN /\ whisperResponse' =
                   WhisperError(200, "No meaningful audio recorded.")
            /\ transcriptionText' = <<>>
            /\ UNCHANGED <<tempFiles, nWrites>>
       ELSE /\ WriteTranscribeUnlink(upload, transcription)
            /\ IF ~transcription.ok
               THEN /\ whisperResponse' =
                           WhisperError(500, "Failed to transcribe audio")
                    /\ transcriptionText' = <<>>
               ELSE /\ transcriptionText' = transcription.text
                    /\ whisperResponse' =
                           IF Len(cleaned(transcription.text))
                                  < MIN_TRANSCRIPT_LENGTH
                           THEN WhisperError(200, MsgNoSpeech)
                           ELSE [status |-> 200, hasText |-> TRUE,
                                 text |-> cleaned(transcription.text),
                                 error |-> "none"]
    /\ UNCHANGED <<platform, webSpeechSupported, sessionVars, keyVars,
                   audioVars, mediaVars, textVars>>

----------------------------------------------------------------------------
(* The text block (blocks/text/client.tsx) *)

\* initialize is called: getSuggestions is on its way
initialize_getSuggestions ==
    /\ initialized = "no"
    /\ initialized' = "pending"
    /\ UNCHANGED <<platform, webSpeechSupported, sessionVars, serverVars,
                   audioVars, mediaVars, metadata, block, savedContent,
                   nParts>>

\* getSuggestions resolved: setMetadata({ suggestions ?? [], language: 'en' })
\* replaces the metadata
initialize_setMetadata(suggestions) ==
    /\ initialized = "pending"
    /\ initialized' = "done"
    /\ metadata' = [defined |-> TRUE, suggestions |-> suggestions,
                    language |-> "en"]
    /\ UNCHANGED <<platform, webSpeechSupported, sessionVars, serverVars,
                   audioVars, mediaVars, block, savedContent, nParts>>

\* onStreamPart with a part of type 'suggestion' or 'text-delta'
onStreamPart(type, suggestion, delta) ==
    /\ nParts < MaxParts
    /\ nParts' = nParts + 1
    /\ IF type = "suggestion"
       THEN /\ metadata' =
                   [safeMetadata(metadata) EXCEPT
                       !.suggestions = Append(@, suggestion)]
            /\ UNCHANGED block
       ELSE /\ block' =
                   [content |-> block.content \o delta,
                    isVisible |->
                        IF /\ block.status = "streaming"
                           /\ Len(block.content) > VisibleFrom
                           /\ Len(block.content) < VisibleUpTo
                        THEN TRUE
                        ELSE block.isVisible,
                    status |-> "streaming"]
            /\ metadata' =
                   [safeMetadata(metadata) EXCEPT
                       !.language = IF isLikelyArabic(delta)
                                    THEN "ar"
                                    ELSE IF @ = "undefined" THEN "en" ELSE @]
    /\ UNCHANGED <<platform, webSpeechSupported, sessionVars, serverVars,
                   audioVars, mediaVars, initialized, savedContent>>

\* the editor's onSaveContent: the content goes to the onSaveContent prop,
\* and the language is set from the saved content
onSaveContent(updated) ==
    /\ Len(savedContent) < MaxSaves
    /\ savedContent' = Append(savedContent, updated)
    /\ metadata' =
           [safeMetadata(metadata) EXCEPT
               !.language = IF isLikelyArabic(updated) THEN "ar" ELSE "en"]
    /\ UNCHANGED <<platform, webSpeechSupported, sessionVars, serverVars,
                   audioVars, mediaVars, block, initialized, nParts>>

----------------------------------------------------------------------------

\* the callbacks of a session on the local recognizer
NextLocal ==
    \/ \E i \in Ids : ClickStartWebSpeech(i)
    \/ ClickStopWebSpeech
    \/ \E i \in Ids : RecogStart(i)
    \/ \E i \in Ids, rs \in ResultLists : RecogResult(i, rs)
    \/ \E i \in Ids : RecogError(i)
    \/ \E i \in Ids : RecogEnd(i)
    \/ Tick

\* the callbacks of a session on the streaming vendor
NextStream ==
    \/ \E i \in Ids : ClickStartDeepgram(i)
    \/ \E i \in Ids : MicGranted(i)
    \/ \E i \in Ids : MicDenied(i)
    \/ ClickStopDeepgram
    \/ \E i \in Ids : SocketOpen(i)
    \/ \E i \in Ids, failed \in BOOLEAN : SocketClose(i, failed)
    \/ \E i \in Ids, m \in Messages : SocketMessage(i, m)
    \/ Tick

Next == NextLocal \/ NextStream

Spec == Init /\ [][Next]_vars

\* the component on a platform where the probe chooses the local recognizer:
\* the START branch never reaches the streaming code, whose objects and
\* callbacks therefore never exist
InitLocal == Init /\ webSpeechSupported

SpecLocal == InitLocal /\ [][NextLocal]_vars

\* the callbacks that write the recording flag or move a transport: the
\* click handler, the getUserMedia continuation and the open, close, start,
\* error and end callbacks (the message and result callbacks write only the
\* composer, the clock only feeds the duration check)
NextToggle ==
    \/ \E i \in Ids : ClickStartWebSpeech(i)
    \/ ClickStopWebSpeech
    \/ \E i \in Ids : RecogStart(i)
    \/ \E i \in Ids : RecogError(i)
    \/ \E i \in Ids : RecogEnd(i)
    \/ \E i \in Ids : ClickStartDeepgram(i)
    \/ \E i \in Ids : MicGranted(i)
    \/ \E i \in Ids : MicDenied(i)
    \/ ClickStopDeepgram
    \/ \E i \in Ids : SocketOpen(i)
    \/ \E i \in Ids, failed \in BOOLEAN : SocketClose(i, failed)

SpecToggle == Init /\ [][NextToggle]_vars

\* the audio path of the streaming strategy: the click handler, the
\* getUserMedia continuation, the socket opening and closing and the
\* recorder's chunks, on a browser that has no recognition constructor
InitStream ==
    /\ Init
    /\ ~platform.SpeechRecognition
    /\ ~platform.webkitSpeechRecognition

NextAudio ==
    \/ \E i \in Ids : ClickStartDeepgram(i)
    \/ \E i \in Ids : MicGranted(i)
    \/ \E i \in Ids : MicDenied(i)
    \/ ClickStopDeepgram
    \/ \E i \in Ids : SocketOpen(i)
    \/ \E i \in Ids, failed \in BOOLEAN : SocketClose(i, failed)
    \/ \E i \in Ids, size \in ChunkSizes : DataAvailable(i, size)

SpecAudio == InitStream /\ [][NextAudio]_vars

\* the streaming start on every platform support of recorder containers
InitRecorder ==
    /\ platform \in ClientPlatforms
    /\ ~platform.SpeechRecognition
    /\ ~platform.webkitSpeechRecognition
    /\ webSpeechSupported = canUseWebSpeech(platform)
    /\ InitSession
    /\ InitKey
    /\ InitWhisper
    /\ InitText
    /\ supportedTypes \in SUBSET MimeTypes

NextRecorder ==
    \/ \E i \in Ids : ClickStartDeepgram(i)
    \/ \E i \in Ids : MicGranted(i)
    \/ \E i \in Ids : MicDenied(i)

SpecRecorder == InitRecorder /\ [][NextRecorder]_vars

\* the same component on a page whose platform changes while it is mounted
NextEnv ==
    \/ Next
    \/ \E p \in ClientPlatforms : EnvChange(p)
    \/ Render

SpecEnv == Init /\ [][NextEnv]_vars

\* the flag and the transports on a page whose platform changes
NextRender ==
    \/ NextToggle
    \/ \E p \in ClientPlatforms : EnvChange(p)
    \/ Render

SpecRender == Init /\ [][NextRender]_vars

\* the capability probe alone: the module is first evaluated on the server
\* (no window, no navigator), then on whatever platform loads the page
ServerPlatform ==
    [navigator |-> FALSE, userAgent |-> <<>>, window |-> FALSE,
     SpeechRecognition |-> FALSE, webkitSpeechRecognition |-> FALSE]

InitProbe ==
    /\ platform = ServerPlatform
    /\ webSpeechSupported = canUseWebSpeech(platform)
    /\ InitSession
    /\ InitKey
    /\ InitWhisper
    /\ InitText
    /\ InitMedia

NextProbe ==
    \/ \E p \in Platforms : EnvChange(p)
    \/ Render

SpecProbe == InitProbe /\ [][NextProbe]_vars

\* the key endpoint alone
NextKey == \E p \in ProjectsOutcomes, c \in CreateKeyOutcomes : KeyGET(p, c)

\* the endpoints run on the server
InitServer ==
    /\ platform = ServerPlatform
    /\ webSpeechSupported = canUseWebSpeech(platform)
    /\ InitSession
    /\ InitKey
    /\ InitWhisper
    /\ InitText
    /\ InitMedia

SpecKey == InitServer /\ [][NextKey]_vars

\* the transcription endpoint alone
NextWhisper == \E u \in Uploads, t \in Transcriptions : POST(u, t)

SpecWhisper == InitServer /\ [][NextWhisper]_vars

\* the revisions of the transcription endpoint that write a temporary file
NextTempFile ==
    \/ \E u \in TempUploads, t \in Transcriptions : POST_TempFile(u, t)
    \/ \E u \in TempUploads, t \in Transcriptions : POST_TempFileChecked(u, t)

SpecTempFile == InitServer /\ [][NextTempFile]_vars

\* the text block alone: initialize, the stream of parts, manual saves
NextText ==
    \/ initialize_getSuggestions
    \/ \E suggestions \in FetchedSuggestions :
           initialize_setMetadata(suggestions)
    \/ \E type \in {"suggestion", "text-delta"}, suggestion \in Suggestions,
          delta \in BlockTexts : onStreamPart(type, suggestion, delta)
    \/ \E updated \in BlockTexts : onSaveContent(updated)

SpecText == Init /\ [][NextText]_vars

----------------------------------------------------------------------------
(* Properties *)

SocketLive(i)     == sock[i].state \in {"CONNECTING", "OPEN"}
RecognizerLive(i) == recog[i].state \in {"starting", "running"}
\* attempt i has started and its transport is not ready yet
InFlight(i) ==
    recog[i].state = "starting" \/ sock[i].state = "CONNECTING"
        \/ mic[i] = "pending"

\* the taxonomy of notifications, by the message the user is shown
NotificationKind(msg) ==
    CASE msg = MsgSpeechError -> "TransportError"
      [] msg = MsgDeepgram    -> "TransportError"
      [] msg = MsgNoSpeech    -> "NoSpeechDetected"
      [] msg = MsgTooShort    -> "TooShortRecording"
      [] msg = MsgCannot      -> "PermissionDenied"

RECURSIVE SumToasts(_, _)
SumToasts(t, msgs) ==
    IF msgs = {} THEN 0
    ELSE LET m == CHOOSE x \in msgs : TRUE
         IN  t[m] + SumToasts(t, msgs \ {m})

Notified(kind) ==
    SumToasts(toasts, {m \in ToastMessages : NotificationKind(m) = kind})

\* C1: at most one capture is live at any time: never two open microphone
\* streams, two recording MediaRecorders, two open (or opening) vendor
\* sockets or two running recognizers, whatever the order of toggles and
\* asynchronous events.
AtMostOneLiveCapture ==
    /\ Cardinality({i \in Ids : mic[i] = "live"}) <= 1
    /\ Cardinality({i \in Ids : rec[i] = "recording"}) <= 1
    /\ Cardinality({i \in Ids : SocketLive(i)}) <= 1
    /\ Cardinality({i \in Ids : RecognizerLive(i)}) <= 1

\* C2: when getUserMedia rejects during a streaming start, an error has been
\* reported and nothing the attempt opened is left open: its socket is not
\* connecting or open and it has no recorder running.
FailedStartLeavesNothingOpen ==
    \A i \in Ids :
        mic[i] = "denied" =>
            /\ toasts[MsgCannot] > 0
            /\ ~SocketLive(i)
            /\ rec[i] # "recording"

\* C3: once the socket of a capture has closed (error or unexpected close),
\* the capture's resources are released: its MediaRecorder is not recording
\* and its microphone stream is not live.
TransportFailureReleasesAll ==
    \A i \in Ids :
        sock[i].state = "CLOSED" => mic[i] # "live" /\ rec[i] # "recording"

\* C4: when the socket of an Active streaming session closes without the
\* user having toggled off, the session becomes Idle, the composer shows the
\* transcript of the last partial, and exactly one TransportError
\* notification is shown for it, with or without a preceding error event.
UnexpectedCloseNotifiesOnce ==
    [][\A i \in Ids :
          (/\ isRecording
           /\ sock[i].handlers
           /\ sock[i].state = "OPEN"
           /\ sock'[i].state = "CLOSED")
          => /\ ~isRecording'
             /\ input' = lastPartial
             /\ toasts'[MsgDeepgram] = toasts[MsgDeepgram] + 1]_vars

\* C5: no malformed socket message makes the message handler throw, and for
\* each malformed message exactly one ParseError warning is recorded.
MalformedMessageHandled ==
    /\ uncaught = 0
    /\ Notified("ParseError") = nMalformed

\* C6: a toggle while a start is in flight (transport not yet ready, the
\* recording flag still false) is a cancellation, never a second start.
StartingToggleIsNotSecondStart ==
    [][(~isRecording /\ \E i \in Ids : InFlight(i)) => nStarts' = nStarts]_vars

\* C7: no vendor socket is opened and no microphone is requested before a
\* credential has been fetched from the key endpoint: the token a socket
\* presents is one the endpoint issued.
SocketOnlyAfterCredential ==
    \A i \in Ids :
        (sock[i].state # "none" \/ mic[i] # "none")
            => sock[i].token \in {k.key : k \in issuedKeys}

\* C8: the credential is fetched anew for every streaming session: no two
\* sockets are opened with the same token; and every key the endpoint
\* issues has a time-to-live of 20 seconds.
CredentialFreshPerSession ==
    /\ \A i, j \in Ids :
          (i # j /\ sock[i].state # "none" /\ sock[j].state # "none")
              => sock[i].token # sock[j].token
    /\ \A k \in issuedKeys : k.ttl = 20

\* C9: a start on the local recognizer (the recognizer is created, or its
\* onstart marks the session recording) touches nothing of the streaming
\* path: no socket, no microphone request, no MediaRecorder, and
\* mediaRecorderRef and deepgramSocketRef keep their values.
LocalStartTouchesNoStreaming ==
    [][(\E i \in Ids :
            /\ recog'[i].state # recog[i].state
            /\ recog'[i].state \in {"starting", "running"})
       => UNCHANGED <<sock, mic, rec, mediaRecorderRef, deepgramSocketRef,
                      issuedKeys>>]_vars

\* a session on the local recognizer is Active and the streaming path was
\* never touched
LocalSessionActive ==
    /\ isRecording
    /\ \E i \in Ids : recog[i].state = "running"
    /\ \A i \in Ids : sock[i] = NoSocket /\ mic[i] = "none" /\ rec[i] = "none"
    /\ mediaRecorderRef = 0
    /\ deepgramSocketRef = 0

\* the ordered policy of strategy selection
IosUserAgent(p) ==
    /\ p.navigator
    /\ \E k \in 1..Len(p.userAgent) : p.userAgent[k] \in {"iPhone", "IPAD", "ipod"}

PolicyStrategy(p) ==
    IF IosUserAgent(p) THEN "StreamingVendor"
    ELSE IF p.window /\ (p.SpeechRecognition \/ p.webkitSpeechRecognition)
    THEN "LocalRecognizer"
    ELSE "StreamingVendor"

\* C10: whenever the component evaluates the probe, on any platform, the
\* strategy it gets is the one of the ordered policy: streaming on an iOS
\* user agent even with a recognition constructor present, else the local
\* recognizer exactly when a constructor is present, else streaming.
StrategyFollowsPolicy ==
    [][platform' = platform
       => (webSpeechSupported' <=>
              PolicyStrategy(platform) = "LocalRecognizer")]_vars

\* a render chose the local recognizer where only the prefixed constructor
\* exists
LocalChosenOnPrefixedConstructor ==
    /\ webSpeechSupported
    /\ ~IosUserAgent(platform)
    /\ platform.webkitSpeechRecognition
    /\ ~platform.SpeechRecognition

\* the strategy a session was started with, read off the transport it opened
StartedLocal(i)     == recog[i].state # "none"
StartedStreaming(i) == sock[i].state # "none"

\* C11: the strategy of a session is fixed at its start: while a session is
\* Active, the stop branch of the click handler (which branches on
\* webSpeechSupported of the current render) is the one of the strategy the
\* session was started with: the recognizer branch for a running recognizer,
\* the recorder-and-socket branch for an open streaming socket.
StopBranchOnSessionStrategy ==
    isRecording =>
        /\ (\E i \in Ids : StartedLocal(i) /\ recog[i].state = "running")
               => webSpeechSupported
        /\ (\E i \in Ids : /\ StartedStreaming(i)
                           /\ sock[i].handlers
                           /\ sock[i].state = "OPEN")
               => ~webSpeechSupported

\* the phases of a session, in the order of the state machine, read off its
\* transport: 0 Idle (not started), 1 Starting, 2 Active, 3 Stopping,
\* 4 failed and about to end, 5 Idle again
RecogPhase(st) ==
    CASE st = "none"     -> 0
      [] st = "starting" -> 1
      [] st = "running"  -> 2
      [] st = "stopping" -> 3
      [] st = "aborting" -> 3
      [] st = "errored"  -> 4
      [] st = "ended"    -> 5

SockPhase(st) ==
    CASE st = "none"       -> 0
      [] st = "CONNECTING" -> 1
      [] st = "OPEN"       -> 2
      [] st = "CLOSING"    -> 3
      [] st = "CLOSED"     -> 5

\* recognition.onstart or dgSocket.onopen of session i runs in this step
TransportReady(i) ==
    \/ recog[i].state = "starting" /\ recog'[i].state = "running"
    \/ /\ sock[i].handlers
       /\ sock[i].state = "CONNECTING"
       /\ sock'[i].state = "OPEN"

\* C12: within a session the state only moves forward: no callback moves a
\* session's transport back to an earlier phase (so its onstart or onopen
\* runs at most once), and the recording flag turns true only in a step
\* in which a session's transport becomes ready.
SessionMovesForward ==
    [][/\ \A i \in Ids :
             /\ RecogPhase(recog'[i].state) >= RecogPhase(recog[i].state)
             /\ SockPhase(sock'[i].state) >= SockPhase(sock[i].state)
       /\ (~isRecording /\ isRecording') => \E i \in Ids : TransportReady(i)
      ]_vars

\* a session has gone through Starting, Active and Stopping and is Idle again
SessionCompleted ==
    /\ ~isRecording
    /\ recordStartRef # 0
    /\ \E i \in Ids :
          /\ sock[i].handlers
          /\ sock[i].state = "CLOSED"
          /\ rec[i] = "inactive"
          /\ \A j \in Ids \ {i} : sock[j].state = "none"

\* the stop branch of the click handler ends the Active session i in this
\* step: recognition.stop() on its running recognizer, or dgSocket.close()
\* on its open socket
ToggleOffActive(i) ==
    /\ isRecording
    /\ \/ recog[i].state = "running" /\ recog'[i].state = "stopping"
       \/ /\ sock[i].handlers
          /\ sock[i].state = "OPEN"
          /\ sock'[i].state = "CLOSING"

\* C13: on both strategies a toggle-off of a session that has been Active
\* for less than 800 ms reports exactly one too-short notification (no
\* session has been Active for longer than the component has been mounted,
\* now - Epoch); a toggle-off of a streaming session 800 ms or more after its
\* onopen reports none.
TooShortStopNotifiesOnce ==
    [][\A i \in Ids :
          ToggleOffActive(i) =>
              /\ now - Epoch < MIN_RECORD_DURATION_MS
                     => toasts'[MsgTooShort] = toasts[MsgTooShort] + 1
              /\ (/\ sock'[i].state = "CLOSING"
                  /\ now - recordStartRef >= MIN_RECORD_DURATION_MS)
                     => toasts'[MsgTooShort] = toasts[MsgTooShort]]_vars

\* C14: a toggle-off of an Active session stops that session's audio capture
\* and tells its transport to finalize: after the stop branch has run, the
\* session's recognizer is stopping or its socket is closing, its
\* MediaRecorder is not recording and its microphone stream is not live (so
\* that the close or end event finds the microphone released).
ToggleOffFinalizesSession ==
    [][\A i \in Ids :
          ToggleOffActive(i) =>
              /\ recog'[i].state = "stopping" \/ sock'[i].state = "CLOSING"
              /\ rec'[i] # "recording"
              /\ mic'[i] # "live"]_vars

\* C15: once a session has failed, no later event of it writes the composer:
\* the end event that follows a recognizer's error event leaves input as it
\* is, and so does every event of a session whose socket has closed.
NoComposerWriteAfterError ==
    [][\A i \in Ids :
          (\/ recog[i].state = "errored" /\ recog'[i] # recog[i]
           \/ sock[i].state = "CLOSED" /\ sock'[i] # sock[i])
          => input' = input]_vars

\* C16: a failure is notified once: the end event after a recognizer's error
\* event adds no notification to the one of the error event, the close of a
\* failed socket adds at most one in all, and no callback lets an exception
\* escape.
OneNotificationPerFailure ==
    [][/\ \A i \in Ids :
             (recog[i].state = "errored" /\ recog'[i].state = "ended")
                 => toasts' = toasts
       /\ \A i \in Ids :
             (sock[i].state # "CLOSED" /\ sock'[i].state = "CLOSED")
                 => SumToasts(toasts', ToastMessages)
                        <= SumToasts(toasts, ToastMessages) + 1
       /\ uncaught' = uncaught]_vars

\* C17: every well-formed message that carries a transcript, in either
\* envelope shape, is normalised to its transcript: once the handler has run
\* on a message whose transcript differs from that of the message before,
\* the composer shows that transcript.
MessageTextIsTranscript ==
    [][(nMsgs' = nMsgs + 1 /\ lastPartial' # lastPartial)
           => input' = lastPartial']_vars

\* the text-cleaning policy: leading and trailing whitespace removed and
\* every run of whitespace inside replaced by one space
RECURSIVE CollapseRuns(_)
CollapseRuns(s) ==
    IF s = <<>> THEN <<>>
    ELSE IF IsSpace(Head(s)) THEN <<" ">> \o CollapseRuns(TrimStart(s))
    ELSE <<Head(s)>> \o CollapseRuns(Tail(s))

PolicyCleaned(t) == CollapseRuns(Trim(t))

\* C18: the text the transcription endpoint returns is the transcription
\* with leading and trailing whitespace removed and every internal run of
\* whitespace collapsed to one space, and cleaning it again changes nothing.
CleaningCollapsesEveryRun ==
    whisperResponse.hasText =>
        /\ whisperResponse.text = PolicyCleaned(transcriptionText)
        /\ cleaned(whisperResponse.text) = whisperResponse.text

\* C19: a final text that is shorter than 5 characters once cleaned is
\* reported as no meaningful speech and is not delivered: the recognizer's
\* end event shows the notification and leaves the composer alone, and the
\* transcription endpoint answers without a text member; a text of 5
\* characters or more is delivered cleaned.
ShortTextIsNoSpeech ==
    [][/\ \A i \in Ids :
             (recog[i].state # "ended" /\ recog'[i].state = "ended") =>
                 LET final == PolicyCleaned(recog[i].finalTranscript)
                 IN  IF Len(final) < MIN_TRANSCRIPT_LENGTH
                     THEN /\ toasts'[MsgNoSpeech] = toasts[MsgNoSpeech] + 1
                          /\ input' = input
                     ELSE input' = final
       /\ whisperResponse'.hasText
             <=> Len(PolicyCleaned(transcriptionText')) >= MIN_TRANSCRIPT_LENGTH
      ]_vars

\* the recorder and the socket the stop branch would reach are already
\* stopped and closing or closed
RefsClosed ==
    /\ mediaRecorderRef # 0
    /\ rec[mediaRecorderRef] = "inactive"
    /\ deepgramSocketRef # 0
    /\ sock[deepgramSocketRef].state \in {"CLOSING", "CLOSED"}

\* the step is a callback of the platform (a message, a clock advance, a
\* getUserMedia outcome, a socket opening or closing), not a click
CallbackStep ==
    \/ nMsgs' # nMsgs
    \/ now' # now
    \/ \E i \in Ids : mic[i] = "pending" /\ mic'[i] # "pending"
    \/ \E i \in Ids : /\ sock'[i].state # sock[i].state
                      /\ sock'[i].state \in {"OPEN", "CLOSED"}

\* C20: closing the capture is idempotent: a click that runs the streaming
\* stop branch while the recorder is already inactive and the socket already
\* closing or closed calls neither stop() nor close() again and raises
\* nothing: recorders, microphone streams and sockets stay as they are, no
\* exception escapes and the catch block reports nothing.
StopOnClosedResourcesIsNoOp ==
    [][(isRecording /\ ~webSpeechSupported /\ RefsClosed /\ ~CallbackStep)
          => /\ UNCHANGED <<rec, mic, sock, uncaught>>
             /\ toasts'[MsgCannot] = toasts[MsgCannot]]_vars

\* the stop branch has run once (a recorder is inactive only after stop()),
\* another session's onopen has set the recording flag again, and the next
\* click runs the stop branch on the stopped recorder and the closed socket
StopBranchOnClosedResources ==
    /\ isRecording
    /\ ~webSpeechSupported
    /\ RefsClosed
    /\ toasts[MsgTooShort] > 0

\* C21: every response of the key endpoint is either 200 with a non-empty
\* key or a 4xx/5xx with an error string; no failure at any step gives a
\* 200 without a key.
KeyResponseHasKeyOrError ==
    keyResponse.status # 0 =>
        \/ keyResponse.status = 200 /\ keyResponse.key.text # ""
        \/ /\ keyResponse.status >= 400
           /\ keyResponse.status < 600
           /\ keyResponse.error # "none"
           /\ keyResponse.key.text = ""

ReadyMarksClearsAndStamps ==
    [][\A i \in Ids :
          TransportReady(i) =>
              /\ isRecording'
              /\ input' = <<>>
              /\ recordStartRef' = now]_vars

\* the chunks of a recorder that carry audio
NonEmptyChunks(i) == SelectSeq(chunks[i], LAMBDA c : c.size > 0)

\* C24: every non-empty chunk the recorder of a session emitted is forwarded
\* to the session's socket, in capture order, chunks emitted before the
\* socket finished opening included: with the socket open, what has been
\* sent is the sequence of the non-empty chunks emitted so far.
ChunksForwardedInOrder ==
    \A i \in Ids : sock[i].state = "OPEN" => frames[i] = NonEmptyChunks(i)

\* C25: every frame sent on a vendor socket is a chunk of more than zero
\* bytes sent while the socket's readyState is OPEN.
FramesNonEmptyOnOpenSocket ==
    [][\A i \in Ids :
          frames'[i] # frames[i] =>
              /\ sock[i].state = "OPEN"
              /\ Len(frames'[i]) = Len(frames[i]) + 1
              /\ frames'[i][Len(frames'[i])].size > 0]_vars

\* a recorder emitted a zero-byte chunk, which was discarded, and a chunk
\* with audio, which was sent
EmptyChunkDroppedAudioSent ==
    \E i \in Ids :
        /\ Len(chunks[i]) = 2
        /\ chunks[i][1].size = 0
        /\ frames[i] = <<chunks[i][2]>>

\* C26: last received wins: a recognizer result event overwrites the
\* composer with the transcript of that event, and while a streaming
\* session is Active a message whose transcript is empty leaves the
\* composer empty, whatever it showed before.
LastReceivedWins ==
    [][/\ \A i \in Ids :
             (nResults' = nResults + 1 /\ recog'[i] # recog[i])
                 => input' = recog'[i].finalTranscript
       /\ (isRecording /\ nMsgs' = nMsgs + 1 /\ lastPartial' = <<>>)
             => input' = <<>>]_vars

\* the container the preference order prescribes
PreferredContainer(supported) ==
    IF WebmOpus \in supported THEN WebmOpus
    ELSE IF Mp4Opus \in supported THEN Mp4Opus
    ELSE IF OggOpus \in supported THEN OggOpus
    ELSE "undefined"

\* C27: every MediaRecorder is created with the first container of the
\* list webm, mp4, ogg (each with opus) that the platform supports, and
\* with no container (the platform's default) exactly when it supports
\* none of the three.
RecorderGetsPreferredContainer ==
    \A i \in Ids :
        rec[i] # "none" =>
            /\ recMime[i] = PreferredContainer(supportedTypes)
            /\ recMime[i] = "undefined"
                   <=> supportedTypes \cap {WebmOpus, Mp4Opus, OggOpus} = {}

\* a recorder was created with mp4 on a platform that supports mp4 and ogg
\* but not webm
RecorderOnMp4BeforeOgg ==
    /\ WebmOpus \notin supportedTypes
    /\ {Mp4Opus, OggOpus} \subseteq supportedTypes
    /\ \E i \in Ids : rec[i] = "recording" /\ recMime[i] = Mp4Opus

\* session j is Active: its transport is ready and the flag is set
ActiveSession(j) ==
    /\ isRecording
    /\ \/ recog[j].state = "running"
       \/ sock[j].handlers /\ sock[j].state = "OPEN"

\* C28: a callback of an earlier session does not change a later one: when
\* the socket of session i closes, or its recognizer ends, while a later
\* session j is Active, the recording flag stays set.
LateCallbackLeavesLaterSession ==
    [][\A i, j \in Ids :
          (/\ i < j
           /\ ActiveSession(j)
           /\ \/ sock[i].state # "CLOSED" /\ sock'[i].state = "CLOSED"
              \/ recog[i].state # "ended" /\ recog'[i].state = "ended")
          => isRecording']_vars

\* C29: the open event of a streaming session is never missed: whenever a
\* session's recorder is capturing from a live microphone and its socket is
\* open, the recording flag is set.
OpenSocketWithRecorderShowsRecording ==
    \A i \in Ids :
        (rec[i] = "recording" /\ mic[i] = "live" /\ sock[i].state = "OPEN")
            => isRecording

\* C30: every temporary file the transcription endpoint wrote is deleted
\* before the response of its request is returned, whether the transcription
\* call returned or threw: between requests tempDir holds no file.
NoTempFileOutlivesItsRequest ==
    whisperResponse.status # 0 => tempFiles = {}

\* C31: in the text block metadata.language is sticky: once a streamed delta
\* with an Arabic character has made it 'ar', it stays 'ar' until a manual
\* save of a content without Arabic characters; nothing else takes it back.
LanguageStickyUntilManualSave ==
    [][(/\ metadata.language = "ar"
        /\ isLikelyArabic(block.content)
        /\ metadata'.language # "ar")
          => /\ Len(savedContent') = Len(savedContent) + 1
             /\ ~isLikelyArabic(savedContent'[Len(savedContent')])]_vars

====
